---- MODULE Spec2Model ----
(***************************************************************************)
(* A model of notion_export.py: the tree walker export_pages, the path     *)
(* registry (table page_map), the block renderer, the compare-and-write    *)
(* step, the asset downloads on the global thread pool and the driver      *)
(* main_backup, run once (--run-now) or repeatedly by the scheduler.       *)
(*                                                                         *)
(* Text is a sequence of tokens: titles and paragraph text are sequences   *)
(* of one-character strings, markup literals are single tokens, "CR" and   *)
(* "LF" are the carriage return and the line feed.  A path is a sequence   *)
(* of names relative to EXPORT_PATH; <<>> is EXPORT_PATH itself.           *)
(***************************************************************************)
EXTENDS Integers, Sequences, FiniteSets, TLC

\* ---------------------------------------------------------------- bounds

\* main_backup runs per behaviour
MaxRuns == 3
\* remote edits (rename, create, reorder) per behaviour
MaxEdits == 1

\* ------------------------------------------------------ program constants

max_workers == 5
ROOT_DIR_NAME == "pages"

\* ------------------------------------------------------ the remote workspace

PageIds == {"p1", "p2", "p3", "c1", "c2", "r1"}
DbIds == {"d1"}
Ids == PageIds \cup DbIds
TopPageIds == {"p1", "p2", "p3"}

Titles == {<<"A">>, <<"B", "?">>}

Urls == {"u1", "u2"}

\* the basename of a URL with its query string stripped (both assets of p1
\* are served under the same file name)
UrlBasename(u) == "x.png"

Blk(t, txt, u, i, kids) ==
    [type |-> t, text |-> txt, url |-> u, id |-> i, children |-> kids]

Paragraph(txt) == Blk("paragraph", txt, "", "", <<>>)
Image(u) == Blk("image", <<>>, u, "", <<>>)
ChildPage(i) == Blk("child_page", <<>>, "", i, <<>>)
Toggle(txt, kids) == Blk("toggle", txt, "", "", kids)
Table(i) == Blk("table", <<>>, "", i, <<>>)
Embed == Blk("embed", <<>>, "", "", <<>>)
ColumnList(kids) == Blk("column_list", <<>>, "", "", kids)
Column(kids) == Blk("column", <<>>, "", "", kids)

\* what notion.blocks.children.list returns (has_children blocks with their
\* children attached, as retrieve_all_blocks builds them)
BlocksOf(d) ==
    CASE d = "p1" -> << Paragraph(<<"x">>), ChildPage("c1"),
                        Toggle(<<"t">>, << ChildPage("c2") >>) >>
      [] d = "p2" -> << Paragraph(<<"y", "CR", "z">>), Table("t1") >>
      [] d = "p3" -> << Embed >>
      [] d = "c1" -> << Paragraph(<<"k">>) >>
      [] d = "c2" -> << Paragraph(<<"n">>) >>
      [] d = "r1" -> << Paragraph(<<"w">>), Embed,
                        Image("u1"), Image("u2") >>
      [] OTHER -> << >>

\* the cells of the table_row children of a table block
TableRows(t) == << << <<"v">>, <<"q", "CR">> >> >>

\* the entries of a database, in query order
RowsOf(d) == IF d = "d1" THEN <<"r1">> ELSE <<>>

ObjectOf(d) == IF d \in DbIds THEN "database" ELSE "page"

\* ------------------------------------------------------------ text, names

RECURSIVE Concat(_)
\* ''.join(chars)
Concat(chars) ==
    IF chars = <<>> THEN "" ELSE Head(chars) \o Concat(Tail(chars))

InvalidChars == {"<", ">", ":", "\"", "/", "\\", "|", "?", "*"}

RECURSIVE LStrip(_)
LStrip(chars) ==
    IF chars # <<>> /\ Head(chars) = " " THEN LStrip(Tail(chars)) ELSE chars

RECURSIVE RStrip(_)
RStrip(chars) ==
    IF chars # <<>> /\ chars[Len(chars)] = " "
    THEN RStrip(SubSeq(chars, 1, Len(chars) - 1))
    ELSE chars

\* re.sub(r'[<>:"/\\|?*]', '', filename).strip()
sanitize_filename(chars) ==
    Concat(RStrip(LStrip(SelectSeq(chars, LAMBDA c : c \notin InvalidChars))))

\* str(count)
Str(n) == ToString(n)

\* -------------------------------------------------------------- rich text

\* a span of a rich_text array; in rendered text the token "BACKTICK"
\* stands for the backquote character
Span(plain_text, code, bold, italic, strikethrough, underline, href) ==
    [plain_text |-> plain_text, code |-> code, bold |-> bold,
     italic |-> italic, strikethrough |-> strikethrough,
     underline |-> underline, href |-> href]

\* a rendering of a span that puts the backticks outside the asterisks
span_text_code_outside(rich_text) ==
    LET t0 == rich_text.plain_text
        t1 == IF rich_text.bold THEN <<"**">> \o t0 \o <<"**">> ELSE t0
        t2 == IF rich_text.code THEN <<"BACKTICK">> \o t1 \o <<"BACKTICK">> ELSE t1
        t3 == IF rich_text.italic THEN <<"*">> \o t2 \o <<"*">> ELSE t2
        t4 == IF rich_text.strikethrough THEN <<"~~">> \o t3 \o <<"~~">> ELSE t3
        t5 == IF rich_text.underline THEN <<"<u>">> \o t4 \o <<"</u>">> ELSE t4
    IN  IF rich_text.href # ""
        THEN <<"[">> \o t5 \o <<"](", rich_text.href, ")">> ELSE t5

\* get_rich_text, lines 267-286: the text one span contributes
span_text(rich_text) ==
    LET t0 == rich_text.plain_text
        t1 == IF rich_text.code THEN <<"BACKTICK">> \o t0 \o <<"BACKTICK">> ELSE t0
        t2 == IF rich_text.bold THEN <<"**">> \o t1 \o <<"**">> ELSE t1
        t3 == IF rich_text.italic THEN <<"*">> \o t2 \o <<"*">> ELSE t2
        t4 == IF rich_text.strikethrough THEN <<"~~">> \o t3 \o <<"~~">> ELSE t3
        t5 == IF rich_text.underline THEN <<"<u>">> \o t4 \o <<"</u>">> ELSE t4
    IN  IF rich_text.href # ""
        THEN <<"[">> \o t5 \o <<"](", rich_text.href, ")">> ELSE t5

RECURSIVE get_rich_text_reversed(_)
\* a rendering that puts each span before the spans rendered so far
get_rich_text_reversed(rich_text_array) ==
    IF rich_text_array = <<>> THEN <<>>
    ELSE get_rich_text_reversed(Tail(rich_text_array))
         \o span_text(Head(rich_text_array))

RECURSIVE get_rich_text(_)
\* get_rich_text(rich_text_array)
get_rich_text(rich_text_array) ==
    IF rich_text_array = <<>> THEN <<>>
    ELSE span_text(Head(rich_text_array)) \o get_rich_text(Tail(rich_text_array))

\* ------------------------------------------------------------------ paths

Dirname(p) == SubSeq(p, 1, Len(p) - 1)
Basename(p) == p[Len(p)]
IsPrefix(a, b) == Len(a) <= Len(b) /\ SubSeq(b, 1, Len(a)) = a
Prefixes(p) == { SubSeq(p, 1, n) : n \in 0..Len(p) }

RECURSIVE CommonLen(_, _)
CommonLen(a, b) ==
    IF a # <<>> /\ b # <<>> /\ Head(a) = Head(b)
    THEN 1 + CommonLen(Tail(a), Tail(b))
    ELSE 0

\* os.path.relpath(target, start)
RelPath(target, start) ==
    LET k == CommonLen(target, start)
        ups == [i \in 1..(Len(start) - k) |-> ".."]
        rest == SubSeq(target, k + 1, Len(target))
    IN  IF ups \o rest = <<>> THEN <<".">> ELSE ups \o rest

RECURSIVE PathText(_)
\* a path as text: its names joined by "/"
PathText(p) ==
    IF p = <<>> THEN <<>>
    ELSE IF Len(p) = 1 THEN <<p[1]>>
    ELSE <<p[1], "/">> \o PathText(Tail(p))

RECURSIVE Normalize(_)
\* os.path.normpath of a relative path: "." dropped, ".." cancels a name
Normalize(p) ==
    IF p = <<>> THEN <<>>
    ELSE LET q == Normalize(SubSeq(p, 1, Len(p) - 1))
             n == p[Len(p)]
         IN  IF n = "." THEN q
             ELSE IF n = ".." /\ q # <<>> /\ q[Len(q)] # ".."
                  THEN SubSeq(q, 1, Len(q) - 1)
                  ELSE Append(q, n)

\* ------------------------------------------------------------------ state

VARIABLES
    \* the remote workspace: titles, the order notion.search lists the
    \* top-level pages and databases in, the URLs that answer 200
    title, topPages, topDbs, served,
    \* configuration (BACKUP_METHODS and the paths and credentials set)
    enable_local_backup, enable_backblaze_backup,
    \* table page_map: page_id -> relative_path
    page_map,
    \* the file system under EXPORT_PATH: directories, files and their bytes
    dirs, files,
    \* the bucket: key -> body, and the keys put in the current run
    bucket, uploaded,
    \* main_backup: where the driver is, and the export_pages call stack
    pc, stack,
    \* the global ThreadPoolExecutor: its shutdown flag and its work items
    shutdown, tasks,
    \* db_session.session: "none", "open" or "closed"
    session,
    \* logger.error / logger.warning records of the current run
    log,
    \* history: runs started, remote edits made, whether the remote changed
    \* since the previous run, whether the current run is a re-run on an
    \* unchanged remote, files as the current run found them,
    \* write calls of the current run, and its writes per download destination,
    \* how far each document got in the current run, the links rendered in
    \* the current run, and the title each document was last located under
    run, edits, changed, rerun, filesAtStart, writes, downloads, step,
    links, locatedAs,
    \* the renames that raised in the current run (document and the path
    \* its entry held), the documents first registered in the current run,
    \* and the run in which each document's directory was last renamed
    failed, created, renamedAt,
    \* the pages whose block listing failed part-way in the current run
    partial,
    \* a function called on its own: its arguments, and what it returned
    call, result

vars == << title, topPages, topDbs, served, enable_local_backup,
           enable_backblaze_backup, page_map, dirs, files, bucket, uploaded,
           pc, stack, shutdown, tasks, session, log, run, edits, changed,
           rerun, filesAtStart, writes, downloads, step, links, locatedAs,
           failed, created, renamedAt, partial, call, result >>

remoteVars == << title, topPages, topDbs, served >>
configVars == << enable_local_backup, enable_backblaze_backup >>
callVars == << call, result >>

\* ---------------------------------------------------------- the registry

\* get_relative_path: None (here <<>>) when the table has no row
get_relative_path(pm, page_id) ==
    IF page_id \in DOMAIN pm THEN pm[page_id] ELSE <<>>

\* update_relative_path: update the row, or add it; then commit
update_relative_path(pm, page_id, relative_path) ==
    [i \in DOMAIN pm \cup {page_id} |->
        IF i = page_id THEN relative_path ELSE pm[i]]

\* ------------------------------------------------------- the file system

\* os.path.exists
Exists(D, F, p) == p \in D \/ p \in DOMAIN F

\* os.makedirs: the directory and every missing ancestor
Makedirs(D, p) == D \cup Prefixes(p)

\* no entry lies below directory p
IsEmptyDir(D, F, p) ==
    /\ \A q \in D : ~(IsPrefix(p, q) /\ q # p)
    /\ \A q \in DOMAIN F : ~IsPrefix(p, q)

\* os.rename(src, dst) of a directory succeeds: src is there, and dst is
\* free or an empty directory (which POSIX rename replaces)
RenameOk(D, F, src, dst) ==
    /\ src \in D
    /\ Dirname(dst) \in D
    /\ ~IsPrefix(src, dst)
    /\ \/ ~Exists(D, F, dst)
       \/ dst \in D /\ IsEmptyDir(D, F, dst)

Moved(src, dst, p) ==
    IF IsPrefix(src, p) THEN dst \o SubSeq(p, Len(src) + 1, Len(p)) ELSE p

RenameDirs(D, src, dst) == { Moved(src, dst, p) : p \in D }

RenameFiles(F, src, dst) ==
    [q \in { Moved(src, dst, p) : p \in DOMAIN F } |->
        F[CHOOSE p \in DOMAIN F : Moved(src, dst, p) = q]]

\* open(path, 'w' or 'wb'): possible when the directory is there and the
\* path is not itself a directory
CanWrite(D, p) == Dirname(p) \in D /\ p \notin D

WriteFile(F, p, bytes) ==
    [q \in DOMAIN F \cup {p} |-> IF q = p THEN bytes ELSE F[q]]

\* text written with encoding='utf-8-sig', newline='': a byte-order mark,
\* then the characters untranslated
EncodeSig(text) == <<"BOM">> \o text

RECURSIVE UniversalNewlines(_)
\* text read with newline=None: "\r\n" and "\r" both become "\n"
UniversalNewlines(t) ==
    IF t = <<>> THEN <<>>
    ELSE IF Head(t) = "CR"
         THEN IF Len(t) > 1 /\ t[2] = "LF"
              THEN <<"LF">> \o UniversalNewlines(Tail(Tail(t)))
              ELSE <<"LF">> \o UniversalNewlines(Tail(t))
         ELSE <<Head(t)>> \o UniversalNewlines(Tail(t))

\* open(path, 'r', encoding='utf-8-sig').read()
ReadText(bytes) ==
    UniversalNewlines(IF bytes # <<>> /\ Head(bytes) = "BOM"
                      THEN Tail(bytes) ELSE bytes)

\* is_content_same(new_content, file_path)
is_content_same(F, new_content, file_path) ==
    new_content = ReadText(F[file_path])

\* -------------------------------------------------------------- rendering

RECURSIVE get_unique_directory_name_loop(_, _, _, _, _, _)
get_unique_directory_name_loop(D, F, parent_path, base_name, directory_name, count) ==
    IF Exists(D, F, Append(parent_path, directory_name))
    THEN get_unique_directory_name_loop(D, F, parent_path, base_name,
             base_name \o " (" \o Str(count) \o ")", count + 1)
    ELSE directory_name

\* a naming that never looks at what exists
bare_directory_name(D, F, parent_path, base_name) == base_name

\* get_unique_directory_name(parent_path, base_name)
get_unique_directory_name(D, F, parent_path, base_name) ==
    get_unique_directory_name_loop(D, F, parent_path, base_name, base_name, 1)

\* get_page_title of a page, a database or a child_page block whose title
\* is a single plain span
get_page_title(d) == title[d]

RECURSIVE CsvCell(_)
\* a field under csv.QUOTE_ALL: quotes doubled (the enclosing quotes are
\* added by CsvRow)
CsvCell(chars) ==
    IF chars = <<>> THEN <<>>
    ELSE (IF Head(chars) = "\"" THEN <<"\"", "\"">> ELSE <<Head(chars)>>)
         \o CsvCell(Tail(chars))

RECURSIVE CsvFields(_)
CsvFields(cells) ==
    IF cells = <<>> THEN <<>>
    ELSE <<"\"">> \o CsvCell(Head(cells)) \o <<"\"">>
         \o (IF Len(cells) > 1 THEN <<",">> ELSE <<>>)
         \o CsvFields(Tail(cells))

\* writer.writerow(row) with lineterminator='\n'
CsvRow(cells) == CsvFields(cells) \o <<"LF">>

RECURSIVE CsvRows(_)
\* writer.writerows(rows)
CsvRows(rows) ==
    IF rows = <<>> THEN <<>> ELSE CsvRow(Head(rows)) \o CsvRows(Tail(rows))

\* The effects of rendering are threaded through a record w:
\*   dirs, files, tasks, writes, log, links.

\* save_csv_if_needed(table_data, csv_file_path)
save_csv_if_needed(table_data, csv_file_path, w) ==
    LET new_content == CsvRows(table_data)
    IN  IF /\ Exists(w.dirs, w.files, csv_file_path)
           /\ csv_file_path \in DOMAIN w.files
           /\ ReadText(w.files[csv_file_path]) = new_content
        THEN w
        ELSE IF CanWrite(w.dirs, csv_file_path)
             THEN [w EXCEPT
                     !.files = WriteFile(@, csv_file_path, EncodeSig(new_content)),
                     !.writes = @ \cup {csv_file_path}]
             ELSE [w EXCEPT !.log = @ \cup {"Error saving CSV"}]

\* executor.submit(download_file_if_needed, url, dest) on an executor that
\* was not shut down: one more work item
Submit(w, url, dest) ==
    [w EXCEPT !.tasks = Append(@, [url |-> url, dest |-> dest,
                                   st |-> "pending", run |-> run])]

RECURSIVE process_block(_, _, _)
RECURSIVE blocks_to_markdown(_, _, _)

\* process_block(block, page_export_path): the fragment md and the effects
process_block(block, page_export_path, w) ==
    CASE block.type = "paragraph" ->
            LET kids == blocks_to_markdown(block.children, page_export_path, w)
            IN  IF block.children # <<>>
                THEN [md |-> block.text \o <<"LF", "LF">> \o kids.md, w |-> kids.w]
                ELSE [md |-> block.text \o <<"LF", "LF">>, w |-> w]
      [] block.type = "toggle" ->
            LET kids == blocks_to_markdown(block.children, page_export_path, w)
                open == <<"<details><summary>">> \o block.text
                            \o <<"</summary>", "LF">>
            IN  IF block.children # <<>>
                THEN [md |-> open \o kids.md \o <<"</details>", "LF">>, w |-> kids.w]
                ELSE [md |-> open \o <<"</details>", "LF">>, w |-> w]
      [] block.type = "child_page" ->
            LET page_id == block.id
                child_title == get_page_title(page_id)
                sanitized_title == sanitize_filename(child_title)
                child_relative_path == get_relative_path(page_map, page_id)
                link_path ==
                    IF child_relative_path # <<>>
                    THEN Append(RelPath(child_relative_path, page_export_path),
                                sanitized_title \o ".md")
                    ELSE <<sanitized_title, sanitized_title \o ".md">>
            IN  [md |-> <<"[">> \o child_title \o <<"](">> \o PathText(link_path)
                            \o <<")", "LF", "LF">>,
                 w |-> [w EXCEPT !.links = @ \cup
                          {[to |-> page_id,
                            target |-> Normalize(page_export_path \o link_path)]}]]
      [] block.type = "image" ->
            IF enable_local_backup
            THEN LET images_dir == Append(page_export_path, "images")
                     image_filename == Append(images_dir, UrlBasename(block.url))
                     w1 == IF ~Exists(w.dirs, w.files, images_dir)
                           THEN [w EXCEPT !.dirs = Makedirs(@, images_dir)]
                           ELSE w
                 IN  IF shutdown
                     THEN \* submit raises RuntimeError: cannot schedule new
                          \* futures after shutdown; caught at the end of
                          \* process_block, the fragment is still empty
                          [md |-> <<>>,
                           w |-> [w1 EXCEPT !.log = @ \cup {"Error processing block"}]]
                     ELSE [md |-> <<"![", "](">>
                                    \o PathText(RelPath(image_filename, page_export_path))
                                    \o <<")", "LF", "LF">>,
                           w |-> Submit(w1, block.url, image_filename)]
            ELSE [md |-> <<"![", "](", block.url, ")", "LF", "LF">>, w |-> w]
      [] block.type = "table" ->
            LET table_rows == TableRows(block.id)
                csv_file_name == "table_" \o block.id \o ".csv"
                csv_file_path == Append(page_export_path, csv_file_name)
            IN  IF table_rows # <<>>
                THEN [md |-> <<"[View Table](", csv_file_name, ")", "LF", "LF">>,
                      w |-> save_csv_if_needed(table_rows, csv_file_path, w)]
                ELSE [md |-> <<>>, w |-> w]
      [] OTHER ->
            [md |-> <<>>,
             w |-> [w EXCEPT !.log = @ \cup {"Unsupported block type"}]]

\* blocks_to_markdown(blocks, page_export_path)
blocks_to_markdown(blocks, page_export_path, w) ==
    IF blocks = <<>> THEN [md |-> <<>>, w |-> w]
    ELSE LET first == process_block(Head(blocks), page_export_path, w)
             rest == blocks_to_markdown(Tail(blocks), page_export_path, first.w)
         IN  [md |-> first.md \o rest.md, w |-> rest.w]

\* page_to_markdown(page, page_export_path)
page_to_markdown(page_id, page_export_path, w) ==
    blocks_to_markdown(BlocksOf(page_id), page_export_path, w)

\* the declared properties of a database, in schema order
PropertiesOf(d) == <<"Name">>

\* a payload that is null, and one that holds x
None == << >>
Some(x) == <<x>>

\* a property value of an entry: its type and the payload under that type
Prop(type, payload) == [type |-> type, payload |-> payload]

RECURSIVE JoinNames(_)
\* ', '.join(names)
JoinNames(names) ==
    IF names = << >> THEN << >>
    ELSE IF Len(names) = 1 THEN Head(names)
    ELSE Head(names) \o <<", ">> \o JoinNames(Tail(names))

\* extract_property_value(prop): the cell text, or raised when a method is
\* called on a null payload (None.get, iteration over None)
extract_property_value(prop) ==
    LET v == prop.payload
        Cell(text) == [raised |-> FALSE, out |-> text, log |-> {}]
        Raise == [raised |-> TRUE, out |-> << >>, log |-> {}]
    IN  CASE prop.type \in {"title", "rich_text"} ->
                IF v = None THEN Raise ELSE Cell(get_rich_text(v[1]))
          [] prop.type = "number" ->
                IF v = None THEN Cell(<<"None">>) ELSE Cell(<<Str(v[1])>>)
          [] prop.type \in {"select", "status"} ->
                IF v = None THEN Raise ELSE Cell(v[1].name)
          [] prop.type = "date" ->
                IF v = None THEN Raise ELSE Cell(v[1].start)
          [] prop.type = "people" ->
                IF v = None THEN Raise
                ELSE Cell(JoinNames([n \in 1..Len(v[1]) |-> v[1][n].name]))
          [] OTHER ->
                [raised |-> FALSE,
                 out |-> IF v = None THEN << >> ELSE <<Str(v[1])>>,
                 log |-> {"Unknown property type"}]

\* the title property of an entry of the workspace
PropertyOf(entry, header) ==
    Prop("title", Some(<<Span(get_page_title(entry),
                              FALSE, FALSE, FALSE, FALSE, FALSE, "")>>))

\* export_database_to_csv, lines 587-622: from the schema's property names
\* and the queried entries (each a function from property name to property
\* value) to the CSV text; '' when there is no entry, and '' when the
\* extraction of a cell raises (the except clause of lines 619-622)
database_csv(headers, all_entries) ==
    LET cell(e, h) == extract_property_value(all_entries[e][headers[h]])
    IN  IF all_entries = <<>> THEN <<>>
        ELSE IF \E e \in 1..Len(all_entries), h \in 1..Len(headers) :
                    cell(e, h).raised
        THEN <<>>
        ELSE CsvRow([h \in 1..Len(headers) |-> <<headers[h]>>])
             \o CsvRows([e \in 1..Len(all_entries) |->
                    [h \in 1..Len(headers) |-> cell(e, h).out]])

\* export_database_to_csv(database)
export_database_to_csv(d) ==
    LET all_entries == RowsOf(d)
        headers == PropertiesOf(d)
    IN  database_csv(headers,
            [e \in 1..Len(all_entries) |->
                [h \in { headers[i] : i \in 1..Len(headers) } |->
                    PropertyOf(all_entries[e], h)]])

\* get_child_pages(page_id): the child_page and child_database blocks among
\* the page's own blocks (not those nested in other blocks); a database has
\* no block list
get_child_pages(d) ==
    IF ObjectOf(d) = "database" THEN <<>>
    ELSE LET own == SelectSeq(BlocksOf(d),
                     LAMBDA b : b.type \in {"child_page", "child_database"})
         IN  [i \in 1..Len(own) |-> own[i].id]

\* fetch_notion_pages_and_databases: the workspace pages, then the databases
fetch_notion_pages_and_databases == topPages \o topDbs

\* ------------------------------------------------------------------- Init

\* the documents reachable from a listing of top-level documents
RECURSIVE Reachable(_)
Reachable(items) ==
    IF items = <<>> THEN {}
    ELSE {Head(items)} \cup Reachable(get_child_pages(Head(items)))
         \cup Reachable(RowsOf(Head(items))) \cup Reachable(Tail(items))

Present == Reachable(topPages \o topDbs)

\* the document whose export visits d as a child or a row ("" at top level)
ParentOf(d) ==
    IF \E q \in Ids : \E i \in 1..Len(get_child_pages(q)) : get_child_pages(q)[i] = d
    THEN CHOOSE q \in Ids : \E i \in 1..Len(get_child_pages(q)) : get_child_pages(q)[i] = d
    ELSE IF \E q \in Ids : \E i \in 1..Len(RowsOf(q)) : RowsOf(q)[i] = d
    THEN CHOOSE q \in Ids : \E i \in 1..Len(RowsOf(q)) : RowsOf(q)[i] = d
    ELSE ""

\* the subsequences of a listing
Sublistings(all) ==
    { SelectSeq(all, LAMBDA d : d \in S) : S \in SUBSET { all[i] : i \in 1..Len(all) } }

DefaultTitle == <<"A">>

Init ==
    /\ topPages \in Sublistings(<<"p1", "p2", "p3">>)
    /\ topDbs \in Sublistings(<<"d1">>)
    /\ topPages \o topDbs # <<>>
    /\ title \in [Ids -> Titles]
    /\ \A d \in Ids \ { topPages[i] : i \in 1..Len(topPages) } :
           title[d] = DefaultTitle
    /\ served \in { Urls \ S : S \in SUBSET {"u1"} }
    /\ enable_local_backup \in BOOLEAN
    /\ enable_backblaze_backup \in BOOLEAN
    /\ enable_local_backup \/ enable_backblaze_backup
    /\ page_map = << >>
    /\ dirs = {}
    /\ files = << >>
    /\ bucket = << >>
    /\ uploaded = {}
    /\ pc = "idle"
    /\ stack = << >>
    /\ shutdown = FALSE
    /\ tasks = << >>
    /\ session = "none"
    /\ log = {}
    /\ run = 0
    /\ edits = 0
    /\ changed = FALSE
    /\ rerun = FALSE
    /\ filesAtStart = << >>
    /\ writes = {}
    /\ downloads = << >>
    /\ step = [d \in Ids |-> "none"]
    /\ links = {}
    /\ locatedAs = << >>
    /\ failed = {}
    /\ created = {}
    /\ renamedAt = [d \in Ids |-> 0]
    /\ partial = {}
    /\ call = [fn |-> "none"]
    /\ result = [done |-> FALSE, raised |-> FALSE, out |-> << >>, log |-> {}]

\* ----------------------------------------------------------- export_pages

Top == stack[Len(stack)]
Item == Top.items[Top.idx]

\* a call export_pages(items, parent_path) made by the export of owner
Frame(items, parent_path, owner) ==
    [items |-> items, idx |-> 1, parent |-> parent_path, owner |-> owner,
     pc |-> "locate", path |-> << >>, rel |-> << >>, content |-> << >>]

\* entering export_pages: EXPORT_PATH is created when local backup is on
EnterDirs(D) == IF enable_local_backup /\ << >> \notin D THEN Makedirs(D, << >>) ELSE D

\* the loop moves on to the next item
NextItem(f) ==
    [f EXCEPT !.idx = @ + 1, !.pc = "locate", !.path = << >>, !.rel = << >>,
              !.content = << >>]

\* control after the call on top of st has returned (it ran to its end, or
\* its try/except caught an exception): the caller goes on after the call
AfterReturn(st) ==
    LET rest == SubSeq(st, 1, Len(st) - 1)
        c == rest[Len(rest)]
    IN  IF rest = << >> THEN rest
        ELSE IF c.pc = "rows"
             THEN \* line 796: if not content: continue
                  [rest EXCEPT ![Len(rest)] =
                      IF c.content = << >> THEN NextItem(c)
                      ELSE [c EXCEPT !.pc = "write"]]
             ELSE [rest EXCEPT ![Len(rest)] = NextItem(c)]

PcAfter(st) == IF st = << >> THEN "shutdown" ELSE "export"

Walking == pc = "export" /\ stack # << >> /\ Top.idx <= Len(Top.items)

\* lines 738-750 take the rename branch for the item
RenameWanted(d) ==
    /\ get_relative_path(page_map, d) # << >>
    /\ Basename(get_relative_path(page_map, d)) # sanitize_filename(get_page_title(d))

RenameTarget(d) ==
    Append(Dirname(get_relative_path(page_map, d)), sanitize_filename(get_page_title(d)))

\* a registry that keeps the old path of a renamed directory
RegistryKeptAfterRename(pm, d, new_relative_path) == pm

\* the registry after a directory was renamed (line 749)
RegistryAfterRename(pm, d, new_relative_path) ==
    update_relative_path(pm, d, new_relative_path)

\* a registry updated although os.rename raised
RegistryUpdatedAnyway(pm, d, new_relative_path) ==
    update_relative_path(pm, d, new_relative_path)

\* the registry when os.rename raised: line 749 is not reached
RegistryAfterFailedRename(pm, d, new_relative_path) == pm

\* Locate, lines 733-780: the item's directory is resolved from the
\* registry (and renamed when its basename is not the sanitized title) or
\* assigned a fresh unique name under the parent
Locate ==
    /\ Walking
    /\ Top.pc = "locate"
    /\ ~(RenameWanted(Item) /\ ~RenameOk(dirs, files, get_relative_path(page_map, Item),
                                         RenameTarget(Item)))
    /\ LET d == Item
           sanitized_title == sanitize_filename(get_page_title(d))
           relative_path == get_relative_path(page_map, d)
       IN  IF relative_path # << >>
           THEN LET renamed == Basename(relative_path) # sanitized_title
                    item_export_path ==
                        IF renamed THEN RenameTarget(d) ELSE relative_path
                    D1 == IF renamed
                          THEN RenameDirs(dirs, relative_path, item_export_path)
                          ELSE dirs
                    F1 == IF renamed
                          THEN RenameFiles(files, relative_path, item_export_path)
                          ELSE files
                IN  /\ page_map' = IF renamed
                                   THEN RegistryAfterRename(page_map, d, item_export_path)
                                   ELSE page_map
                    /\ files' = F1
                    /\ dirs' = IF ~Exists(D1, F1, item_export_path)
                               THEN Makedirs(D1, item_export_path) ELSE D1
                    \* relative_path keeps the value read at line 738
                    /\ stack' = [stack EXCEPT ![Len(stack)] =
                                   [@ EXCEPT !.pc = "render",
                                             !.path = item_export_path,
                                             !.rel = relative_path]]
           ELSE LET base_path == IF Top.parent # << >> THEN Top.parent
                                 ELSE <<ROOT_DIR_NAME>>
                    D1 == IF Top.parent = << >> /\ ~Exists(dirs, files, base_path)
                          THEN Makedirs(dirs, base_path) ELSE dirs
                    directory_name ==
                        get_unique_directory_name(D1, files, base_path, sanitized_title)
                    item_export_path == Append(base_path, directory_name)
                IN  /\ page_map' = update_relative_path(page_map, d, item_export_path)
                    /\ files' = files
                    /\ dirs' = IF ~Exists(D1, files, item_export_path)
                               THEN Makedirs(D1, item_export_path) ELSE D1
                    /\ stack' = [stack EXCEPT ![Len(stack)] =
                                   [@ EXCEPT !.pc = "render",
                                             !.path = item_export_path,
                                             !.rel = item_export_path]]
    /\ session' = "open"
    /\ step' = [step EXCEPT ![Item] = "located"]
    /\ locatedAs' = [i \in DOMAIN locatedAs \cup {Item} |->
                        IF i = Item THEN get_page_title(Item) ELSE locatedAs[i]]
    /\ created' = IF get_relative_path(page_map, Item) = << >>
                   THEN created \cup {Item} ELSE created
    /\ renamedAt' = IF RenameWanted(Item)
                     THEN [renamedAt EXCEPT ![Item] = run] ELSE renamedAt
    /\ UNCHANGED << remoteVars, configVars, callVars, bucket, uploaded, pc, shutdown, tasks,
                    log, run, edits, changed, rerun, filesAtStart, writes,
                    downloads, links, failed, partial >>

\* os.rename raises at line 746: the except clause of this export_pages
\* call (lines 822-824) logs it and the call returns
LocateFails ==
    /\ Walking
    /\ Top.pc = "locate"
    /\ RenameWanted(Item)
    /\ ~RenameOk(dirs, files, get_relative_path(page_map, Item), RenameTarget(Item))
    /\ page_map' = RegistryAfterFailedRename(page_map, Item, RenameTarget(Item))
    /\ stack' = AfterReturn(stack)
    /\ pc' = PcAfter(stack')
    /\ log' = log \cup {"Error exporting items"}
    /\ session' = "open"
    /\ failed' = failed \cup {[id |-> Item,
                                 path |-> get_relative_path(page_map, Item)]}
    /\ UNCHANGED << remoteVars, configVars, callVars, dirs, files, bucket, uploaded,
                    shutdown, tasks, run, edits, changed, rerun, filesAtStart,
                    writes, downloads, step, links, locatedAs, created,
                    renamedAt, partial >>

FileName(d) ==
    sanitize_filename(get_page_title(d))
        \o (IF ObjectOf(d) = "database" THEN ".csv" ELSE ".md")

\* Render of a page, lines 791-798: page_to_markdown with its effects
\* (asset directories, submitted downloads, table files); an empty result
\* is logged as a failure and the loop continues with the next item
Rendered(r) ==
    /\ dirs' = r.w.dirs
    /\ files' = r.w.files
    /\ tasks' = r.w.tasks
    /\ writes' = r.w.writes
    /\ links' = links \cup
          { [from |-> Item, to |-> l.to, target |-> l.target] : l \in r.w.links }
    /\ IF r.md = << >>
       THEN /\ log' = r.w.log \cup {"Failed to export"}
            /\ stack' = [stack EXCEPT ![Len(stack)] = NextItem(@)]
       ELSE /\ log' = r.w.log
            /\ stack' = [stack EXCEPT ![Len(stack)] =
                           [@ EXCEPT !.pc = "write", !.content = r.md]]
    /\ step' = [step EXCEPT ![Item] = "rendered"]
    /\ UNCHANGED << remoteVars, configVars, callVars, page_map, bucket, uploaded, pc,
                    shutdown, session, run, edits, changed, rerun, filesAtStart,
                    downloads, locatedAs, failed, created, renamedAt >>

RenderPage ==
    /\ Walking
    /\ Top.pc = "render"
    /\ ObjectOf(Item) = "page"
    /\ LET w0 == [dirs |-> dirs, files |-> files, tasks |-> tasks,
                  writes |-> writes, log |-> log, links |-> {}]
       IN  Rendered(page_to_markdown(Item, Top.path, w0))
    /\ UNCHANGED partial

\* retrieve_all_blocks, lines 242-260, when a call of
\* notion.blocks.children.list after the first raises: the n blocks listed
\* so far are returned, without the children of any of them
retrieve_all_blocks_interrupted(block_id, n) ==
    [i \in 1..n |-> [BlocksOf(block_id)[i] EXCEPT !.children = << >>]]

\* Render of a page, lines 791-798, when the listing of its blocks is
\* interrupted after n blocks: the error is logged by retrieve_all_blocks
\* and page_to_markdown renders the blocks it was given
RenderPageInterrupted(n) ==
    /\ Walking
    /\ Top.pc = "render"
    /\ ObjectOf(Item) = "page"
    /\ n < Len(BlocksOf(Item))
    /\ LET w0 == [dirs |-> dirs, files |-> files, tasks |-> tasks,
                  writes |-> writes,
                  log |-> log \cup {"Error retrieving blocks"}, links |-> {}]
       IN  Rendered(blocks_to_markdown(retrieve_all_blocks_interrupted(Item, n),
                                       Top.path, w0))
    /\ partial' = partial \cup {Item}

\* Render of a database, lines 785-790: the CSV text is produced, then the
\* entries are fetched and export_pages is called on them before the CSV
\* text is written
RenderDatabase ==
    /\ Walking
    /\ Top.pc = "render"
    /\ ObjectOf(Item) = "database"
    /\ LET content == export_database_to_csv(Item)
           database_entries == RowsOf(Item)
           me == [Top EXCEPT !.pc = "rows", !.content = content]
       IN  IF database_entries # << >>
           THEN /\ stack' = Append([stack EXCEPT ![Len(stack)] = me],
                                   Frame(database_entries, Top.path, Item))
                /\ dirs' = EnterDirs(dirs)
                /\ log' = log
           ELSE /\ stack' = [stack EXCEPT ![Len(stack)] =
                               IF content = << >> THEN NextItem(@)
                               ELSE [me EXCEPT !.pc = "write"]]
                /\ dirs' = dirs
                /\ log' = IF content = << >> THEN log \cup {"Failed to export"} ELSE log
    /\ step' = [step EXCEPT ![Item] = "rendered"]
    /\ UNCHANGED << remoteVars, configVars, callVars, page_map, files, bucket, uploaded, pc,
                    shutdown, tasks, session, run, edits, changed, rerun,
                    filesAtStart, writes, downloads, links, locatedAs, failed, created,
                    renamedAt, partial >>

\* line 805: the file is written when it is absent or its text differs
NeedsWrite(D, F, content, file_path) ==
    ~Exists(D, F, file_path) \/ ~is_content_same(F, content, file_path)

\* line 800: the upload key
backblaze_file_name(relative_path, file_name) == Append(relative_path, file_name)

\* Compare-and-write and upload, lines 800-813
Write ==
    /\ Walking
    /\ Top.pc = "write"
    /\ LET file_path == Append(Top.path, FileName(Item))
           key == backblaze_file_name(Top.rel, FileName(Item))
           must == enable_local_backup
                   /\ NeedsWrite(dirs, files, Top.content, file_path)
       IN  IF must /\ ~CanWrite(dirs, file_path)
           THEN \* open raises: caught by this call's except clause
                /\ stack' = AfterReturn(stack)
                /\ pc' = PcAfter(stack')
                /\ log' = log \cup {"Error exporting items"}
                /\ UNCHANGED << files, writes, bucket, uploaded, step >>
           ELSE /\ files' = IF must
                            THEN WriteFile(files, file_path, EncodeSig(Top.content))
                            ELSE files
                /\ writes' = IF must THEN writes \cup {file_path} ELSE writes
                /\ bucket' = IF enable_backblaze_backup
                             THEN [k \in DOMAIN bucket \cup {key} |->
                                     IF k = key THEN Top.content ELSE bucket[k]]
                             ELSE bucket
                /\ uploaded' = IF enable_backblaze_backup
                               THEN uploaded \cup {key} ELSE uploaded
                /\ stack' = [stack EXCEPT ![Len(stack)] = [@ EXCEPT !.pc = "recurse"]]
                /\ step' = [step EXCEPT ![Item] = "written"]
                /\ UNCHANGED << pc, log >>
    /\ UNCHANGED << remoteVars, configVars, callVars, page_map, dirs, shutdown, tasks,
                    session, run, edits, changed, rerun, filesAtStart, downloads,
                    links, locatedAs, failed, created,
                    renamedAt, partial >>

\* Recurse, lines 815-818: export_pages on the item's child pages
Recurse ==
    /\ Walking
    /\ Top.pc = "recurse"
    /\ LET child_items == get_child_pages(Item)
       IN  IF child_items # << >>
           THEN /\ stack' = Append([stack EXCEPT ![Len(stack)] = [@ EXCEPT !.pc = "kids"]],
                                   Frame(child_items, Top.path, Item))
                /\ dirs' = EnterDirs(dirs)
           ELSE /\ stack' = [stack EXCEPT ![Len(stack)] = NextItem(@)]
                /\ dirs' = dirs
    /\ UNCHANGED << remoteVars, configVars, callVars, page_map, files, bucket, uploaded, pc,
                    shutdown, tasks, session, log, run, edits, changed, rerun,
                    filesAtStart, writes, downloads, step, links, locatedAs, failed, created,
                    renamedAt, partial >>

\* the for loop of an export_pages call is exhausted: the call returns
Return ==
    /\ pc = "export"
    /\ stack # << >>
    /\ Top.idx > Len(Top.items)
    /\ stack' = AfterReturn(stack)
    /\ pc' = PcAfter(stack')
    /\ UNCHANGED << remoteVars, configVars, callVars, page_map, dirs, files, bucket,
                    uploaded, shutdown, tasks, session, log, run, edits, changed,
                    rerun, filesAtStart, writes, downloads, step, links,
                    locatedAs, failed, created,
                    renamedAt, partial >>

\* ------------------------------------------------------------ main_backup

\* lines 835-844: initialize_db, the fetch of the top-level documents and
\* the call export_pages(pages)
StartRun ==
    /\ pc = "idle"
    /\ run < MaxRuns
    /\ run' = run + 1
    /\ rerun' = (run > 0 /\ ~changed)
    /\ changed' = FALSE
    /\ filesAtStart' = files
    /\ writes' = {}
    /\ uploaded' = {}
    /\ log' = {}
    /\ links' = {}
    /\ step' = [d \in Ids |-> "none"]
    /\ LET pages == fetch_notion_pages_and_databases
       IN  IF pages # << >>
           THEN /\ stack' = << Frame(pages, << >>, "") >>
                /\ dirs' = EnterDirs(dirs)
                /\ pc' = "export"
           ELSE /\ stack' = << >>
                /\ dirs' = dirs
                /\ pc' = "shutdown"
    /\ failed' = {}
    /\ created' = {}
    /\ downloads' = << >>
    /\ partial' = {}
    /\ UNCHANGED << remoteVars, configVars, callVars, page_map, files, bucket,
                    shutdown, tasks, session, edits, locatedAs, renamedAt >>

\* a shutdown that does not wait (wait=False)
NoWait(ts) == TRUE

\* what executor.shutdown(wait=True) waits for: every submitted work item
\* has finished
AllDownloadsDone(ts) == \A i \in 1..Len(ts) : ts[i].st = "done"

\* line 846: executor.shutdown(wait=True)
ShutdownExecutor ==
    /\ pc = "shutdown"
    /\ AllDownloadsDone(tasks)
    /\ shutdown' = TRUE
    /\ pc' = "close"
    /\ UNCHANGED << remoteVars, configVars, callVars, page_map, dirs, files, bucket,
                    uploaded, stack, tasks, session, log, run, edits, changed,
                    rerun, filesAtStart, writes, downloads, step, links,
                    locatedAs, failed, created,
                    renamedAt, partial >>

\* line 847: close_db(); main_backup returns
\* a close_db that leaves the session as it finds it
session_left_open(db) == db

\* close_db(): the session get_db() returns, created if there is none, closed
close_db(db) == "closed"

CloseDb ==
    /\ pc = "close"
    /\ session' = close_db(session)
    /\ pc' = "idle"
    /\ UNCHANGED << remoteVars, configVars, callVars, page_map, dirs, files, bucket,
                    uploaded, stack, shutdown, tasks, log, run, edits, changed,
                    rerun, filesAtStart, writes, downloads, step, links,
                    locatedAs, failed, created,
                    renamedAt, partial >>

\* the script is started again (--run-now, or the container restarts):
\* module-level state is fresh, the disk and the table are as they were
ProcessRestart ==
    /\ pc = "idle"
    /\ run > 0
    /\ run < MaxRuns
    /\ shutdown
    /\ shutdown' = FALSE
    /\ tasks' = << >>
    /\ session' = "none"
    /\ UNCHANGED << remoteVars, configVars, callVars, page_map, dirs, files, bucket,
                    uploaded, pc, stack, log, run, edits, changed, rerun,
                    filesAtStart, writes, downloads, step, links, locatedAs, failed, created,
                    renamedAt, partial >>

\* --------------------------------------------------- the download workers

Busy == Cardinality({ i \in 1..Len(tasks) : tasks[i].st = "fetching" })

\* download_file_if_needed, lines 489-491: a worker takes a work item and
\* tests whether the destination exists
WorkerCheck(i) ==
    /\ tasks[i].st = "pending"
    /\ Busy < max_workers
    /\ tasks' = [tasks EXCEPT ![i].st =
                    IF Exists(dirs, files, tasks[i].dest) THEN "done" ELSE "fetching"]
    /\ UNCHANGED << remoteVars, configVars, callVars, page_map, dirs, files, bucket,
                    uploaded, pc, stack, shutdown, session, log, run, edits,
                    changed, rerun, filesAtStart, writes, downloads, step, links,
                    locatedAs, failed, created,
                    renamedAt, partial >>

\* download_file_if_needed, lines 492-500: the GET and, on status 200, the
\* write of the body
WorkerFetch(i) ==
    /\ tasks[i].st = "fetching"
    /\ tasks' = [tasks EXCEPT ![i].st = "done"]
    /\ LET dest == tasks[i].dest
           ok == tasks[i].url \in served
       IN  IF ok /\ CanWrite(dirs, dest)
           THEN /\ files' = WriteFile(files, dest, <<tasks[i].url>>)
                /\ writes' = writes \cup {dest}
                /\ downloads' = [p \in DOMAIN downloads \cup {dest} |->
                                   IF p = dest
                                   THEN (IF dest \in DOMAIN downloads
                                         THEN downloads[dest] ELSE 0) + 1
                                   ELSE downloads[p]]
                /\ log' = log
           ELSE /\ log' = log \cup {IF ok THEN "Error downloading file"
                                    ELSE "Failed to download file"}
                /\ UNCHANGED << files, writes, downloads >>
    /\ UNCHANGED << remoteVars, configVars, callVars, page_map, dirs, bucket, uploaded, pc,
                    stack, shutdown, session, run, edits, changed, rerun,
                    filesAtStart, step, links, locatedAs, failed, created,
                    renamedAt, partial >>

\* ------------------------------------------------- the remote, between runs

CanEdit == pc = "idle" /\ edits < MaxEdits /\ run < MaxRuns

\* a document is given another title
RemoteRename(d, t) ==
    /\ CanEdit
    /\ d \in Present
    /\ t # title[d]
    /\ title' = [title EXCEPT ![d] = t]
    /\ edits' = edits + 1
    /\ changed' = TRUE
    /\ UNCHANGED << topPages, topDbs, served, configVars, callVars, page_map, dirs, files,
                    bucket, uploaded, pc, stack, shutdown, tasks, session, log,
                    run, rerun, filesAtStart, writes, downloads, step, links,
                    locatedAs, failed, created,
                    renamedAt, partial >>

\* top-level pages are created (S, titled by t), listed first or last by
\* the search
RemoteCreate(S, t, first) ==
    /\ CanEdit
    /\ S # {}
    /\ S \subseteq TopPageIds \ { topPages[i] : i \in 1..Len(topPages) }
    /\ LET new == SelectSeq(<<"p1", "p2", "p3">>, LAMBDA d : d \in S)
       IN  topPages' = IF first THEN new \o topPages ELSE topPages \o new
    /\ title' = [d \in Ids |-> IF d \in S THEN t[d] ELSE title[d]]
    /\ edits' = edits + 1
    /\ changed' = TRUE
    /\ UNCHANGED << topDbs, served, configVars, callVars, page_map, dirs, files, bucket,
                    uploaded, pc, stack, shutdown, tasks, session, log, run,
                    rerun, filesAtStart, writes, downloads, step, links,
                    locatedAs, failed, created,
                    renamedAt, partial >>

\* the search lists two neighbouring top-level pages in the other order
RemoteReorder(i) ==
    /\ CanEdit
    /\ i \in 1..(Len(topPages) - 1)
    /\ topPages' = [topPages EXCEPT ![i] = topPages[i + 1], ![i + 1] = topPages[i]]
    /\ edits' = edits + 1
    /\ UNCHANGED << title, topDbs, served, configVars, callVars, page_map, dirs, files,
                    bucket, uploaded, pc, stack, shutdown, tasks, session, log,
                    run, changed, rerun, filesAtStart, writes, downloads, step,
                    links, locatedAs, failed, created,
                    renamedAt, partial >>

\* ------------------------------------------------------------------- Next

Next ==
    \/ StartRun
    \/ Locate
    \/ LocateFails
    \/ RenderPage
    \/ RenderDatabase
    \/ Write
    \/ Recurse
    \/ Return
    \/ ShutdownExecutor
    \/ CloseDb
    \/ ProcessRestart
    \/ \E i \in 1..Len(tasks) : WorkerCheck(i)
    \/ \E i \in 1..Len(tasks) : WorkerFetch(i)
    \/ \E d \in Ids, t \in Titles : RemoteRename(d, t)
    \/ \E S \in SUBSET TopPageIds, first \in BOOLEAN : \E t \in [S -> Titles] :
           RemoteCreate(S, t, first)
    \/ \E i \in 1..2 : RemoteReorder(i)

Spec == Init /\ [][Next]_vars

\* --------------------------------------------- runs with failing listings

\* the most blocks a listing returns before it is interrupted
MaxListed == 2

\* the workspace is not edited; a listing of the blocks of a page may fail
\* part-way
NextFaults ==
    \/ StartRun
    \/ Locate
    \/ RenderPage
    \/ \E n \in 1..MaxListed : RenderPageInterrupted(n)
    \/ RenderDatabase
    \/ Write
    \/ Recurse
    \/ Return
    \/ ShutdownExecutor
    \/ CloseDb
    \/ \E i \in 1..Len(tasks) : WorkerCheck(i)
    \/ \E i \in 1..Len(tasks) : WorkerFetch(i)

SpecFaults == Init /\ [][NextFaults]_vars

\* ------------------------------------------- the renderers called directly

\* the longest argument list of a direct call: spans of a rich_text array,
\* properties and entries of a database, children of a column
MaxLen == 2

SeqsUpTo(S, n) == UNION { [1..k -> S] : k \in 0..n }

Flags(rich_text) ==
    { f \in {"code", "bold", "italic", "strikethrough", "underline"} :
        rich_text[f] }

\* every combination of annotations and link on one span
Spans ==
    { Span(<<"s">>, c, b, i, s, u, h) :
        c \in BOOLEAN, b \in BOOLEAN, i \in BOOLEAN, s \in BOOLEAN,
        u \in BOOLEAN, h \in {"", "h"} }

\* the spans that are plain, code or bold, with no link, over two texts
PlainSpans ==
    { [sp EXCEPT !.plain_text = t] :
        sp \in { x \in Spans : Flags(x) \in {{}, {"code"}, {"bold"}}
                                 /\ x.href = "" },
        t \in {<<"s">>, <<"t", " ">>} }

PropNames == {"Name", "Tag", "Due"}

PlainText(text) == <<Span(text, FALSE, FALSE, FALSE, FALSE, FALSE, "")>>

\* the values an entry may hold under each property of the schema: a title,
\* a select that is unset or set, a date that is unset or set
PropsOf(name) ==
    CASE name = "Name" -> { Prop("title", Some(<< >>)),
                            Prop("title", Some(PlainText(<<"v", "\"">>))) }
      [] name = "Tag" -> { Prop("select", None),
                           Prop("select", Some([name |-> <<"g">>])) }
      [] name = "Due" -> { Prop("date", None),
                           Prop("date", Some([start |-> <<"2024">>])) }

Entries == { e \in [PropNames -> UNION { PropsOf(n) : n \in PropNames }] :
               \A n \in PropNames : e[n] \in PropsOf(n) }

\* one property value of every kind extract_property_value tells apart,
\* with its payload set and with its payload null
SingleProps ==
    { Prop("rich_text", Some(PlainText(<<"v">>))),
      Prop("number", None), Prop("number", Some(7)),
      Prop("select", None), Prop("select", Some([name |-> <<"g">>])),
      Prop("status", None), Prop("status", Some([name |-> <<"g">>])),
      Prop("date", None), Prop("date", Some([start |-> <<"2024">>])),
      Prop("people", Some(<< >>)),
      Prop("people", Some(<<[name |-> <<"a">>], [name |-> <<"b">>]>>)),
      Prop("unique_id", None), Prop("unique_id", Some(7)) }

\* the schemas: property names in schema order, none twice, at least the
\* title property
Schemas ==
    { h \in SeqsUpTo(PropNames, MaxLen) :
        /\ h # << >>
        /\ \A i, j \in 1..Len(h) : i # j => h[i] # h[j] }

ColumnKids == {Paragraph(<<"x">>), Toggle(<<"t">>, << >>), Embed}

\* ---- webgui.py: paths as text, a name being a sequence of tokens so
\* that one name can be a proper prefix of another ("backup", "backup2")

\* BASE_BACKUP_DIR = os.path.join("/notion-backup", 'backup'), as components
BASE_BACKUP_DIR == << <<"notion-backup">>, <<"backup">> >>

RECURSIVE AbsText(_)
\* the text of an absolute path given by its components
AbsText(comps) ==
    IF comps = << >> THEN << >>
    ELSE <<"/">> \o Head(comps) \o AbsText(Tail(comps))

RECURSIVE NormAbs(_)
\* os.path.abspath of an absolute path: "." dropped, ".." removes the
\* component before it and is dropped at the root
NormAbs(comps) ==
    IF comps = << >> THEN << >>
    ELSE LET q == NormAbs(SubSeq(comps, 1, Len(comps) - 1))
             n == comps[Len(comps)]
         IN  IF n = <<".">> THEN q
             ELSE IF n = <<"..">>
                  THEN (IF q = << >> THEN q ELSE SubSeq(q, 1, Len(q) - 1))
                  ELSE Append(q, n)

\* os.path.abspath(os.path.join(BASE_BACKUP_DIR, path)): an absolute path
\* replaces the base, a relative one is appended to it
AbsJoin(path) ==
    NormAbs(IF path.absolute THEN path.comps ELSE BASE_BACKUP_DIR \o path.comps)

\* str.startswith
StartsWith(text, prefix) == IsPrefix(prefix, text)

\* secure_path(path): abort(403), or the absolute path
secure_path(path) ==
    LET abs_path == AbsJoin(path)
    IN  IF ~StartsWith(AbsText(abs_path), AbsText(NormAbs(BASE_BACKUP_DIR)))
        THEN [raised |-> TRUE, out |-> << >>]
        ELSE [raised |-> FALSE, out |-> abs_path]

\* the components a client may send
ClientNames == { <<"..">>, <<"x">>, <<"backup">>, <<"backup", "2">> }

ClientPaths ==
    { [absolute |-> a, comps |-> c] :
        a \in BOOLEAN, c \in SeqsUpTo(ClientNames, MaxLen) }

\* the calls: get_rich_text on the array a ++ b, export_database_to_csv on
\* a database with the given schema and entries, process_block on a block
Calls ==
    { [fn |-> "get_rich_text", a |-> a, b |-> b] :
        a \in SeqsUpTo(PlainSpans, MaxLen), b \in SeqsUpTo(PlainSpans, MaxLen) }
    \cup { [fn |-> "get_rich_text", a |-> <<sp>>, b |-> << >>] : sp \in Spans }
    \cup { [fn |-> "export_database_to_csv", headers |-> h, entries |-> e] :
             h \in Schemas, e \in SeqsUpTo(Entries, MaxLen) }
    \cup { [fn |-> "extract_property_value", prop |-> p] : p \in SingleProps }
    \cup { [fn |-> "secure_path", path |-> p] : p \in ClientPaths }
    \cup { [fn |-> "process_block", block |-> ColumnList(<<Column(k)>>)] :
             k \in SeqsUpTo(ColumnKids, MaxLen) }
    \cup { [fn |-> "process_block", block |-> Column(k)] :
             k \in SeqsUpTo(ColumnKids, MaxLen) }

\* the directory of the page whose blocks are rendered by a direct call
CallPath == <<ROOT_DIR_NAME, "A">>

InitCalls ==
    /\ topPages = <<"p1">>
    /\ topDbs = << >>
    /\ title = [d \in Ids |-> DefaultTitle]
    /\ served = Urls
    /\ enable_local_backup = TRUE
    /\ enable_backblaze_backup = FALSE
    /\ page_map = << >>
    /\ dirs = Prefixes(CallPath)
    /\ files = << >>
    /\ bucket = << >>
    /\ uploaded = {}
    /\ pc = "idle"
    /\ stack = << >>
    /\ shutdown = FALSE
    /\ tasks = << >>
    /\ session = "none"
    /\ log = {}
    /\ run = 0
    /\ edits = 0
    /\ changed = FALSE
    /\ rerun = FALSE
    /\ filesAtStart = << >>
    /\ writes = {}
    /\ downloads = << >>
    /\ step = [d \in Ids |-> "none"]
    /\ links = {}
    /\ locatedAs = << >>
    /\ failed = {}
    /\ created = {}
    /\ renamedAt = [d \in Ids |-> 0]
    /\ partial = {}
    /\ call \in Calls
    /\ result = [done |-> FALSE, raised |-> FALSE, out |-> << >>, log |-> {}]

exportVars ==
    << remoteVars, configVars, page_map, dirs, files, bucket, uploaded, pc,
       stack, shutdown, tasks, session, log, run, edits, changed, rerun,
       filesAtStart, writes, downloads, step, links, locatedAs, failed,
       created, renamedAt, partial >>

CallRichText ==
    /\ call.fn = "get_rich_text"
    /\ ~result.done
    /\ result' = [done |-> TRUE, raised |-> FALSE,
                  out |-> get_rich_text(call.a \o call.b), log |-> {}]
    /\ UNCHANGED << exportVars, call >>

CallCsv ==
    /\ call.fn = "export_database_to_csv"
    /\ ~result.done
    /\ result' = [done |-> TRUE, raised |-> FALSE,
                  out |-> database_csv(call.headers, call.entries),
                  log |-> {}]
    /\ UNCHANGED << exportVars, call >>

CallBlock ==
    /\ call.fn = "process_block"
    /\ ~result.done
    /\ LET w0 == [dirs |-> dirs, files |-> files, tasks |-> tasks,
                  writes |-> writes, log |-> {}, links |-> {}]
           r == process_block(call.block, CallPath, w0)
       IN  result' = [done |-> TRUE, raised |-> FALSE, out |-> r.md,
                      log |-> r.w.log]
    /\ UNCHANGED << exportVars, call >>

CallSecurePath ==
    /\ call.fn = "secure_path"
    /\ ~result.done
    /\ LET r == secure_path(call.path)
       IN  result' = [done |-> TRUE, raised |-> r.raised, out |-> r.out,
                      log |-> IF r.raised
                              THEN {"Attempted access to forbidden path"}
                              ELSE {}]
    /\ UNCHANGED << exportVars, call >>

CallExtract ==
    /\ call.fn = "extract_property_value"
    /\ ~result.done
    /\ LET r == extract_property_value(call.prop)
       IN  result' = [done |-> TRUE, raised |-> r.raised, out |-> r.out,
                      log |-> r.log]
    /\ UNCHANGED << exportVars, call >>

NextCalls ==
    \/ CallRichText
    \/ CallCsv
    \/ CallBlock
    \/ CallExtract
    \/ CallSecurePath

SpecCalls == InitCalls /\ [][NextCalls]_vars

\* ============================================================== properties

\* the directory name of d's present title
DirTitle(d) == sanitize_filename(title[d])

\* d's title, as a directory name, is not the one d was last located under
Retitled(d) ==
    d \in DOMAIN locatedAs /\ sanitize_filename(locatedAs[d]) # DirTitle(d)

\* the step about to be taken is the export of the current item (the
\* workers' steps leave the call stack alone)
ItemStep == Walking /\ Top.pc = "locate" /\ stack' # stack

\* ----------------------------------------------------------------- C1

\* C1 (idempotence): a run that follows a run, on a remote workspace that
\* did not change in between, performs no write at all and leaves every
\* file with the bytes it had when the run started
C1_Idempotent == rerun => (writes = {} /\ files = filesAtStart)

\* ----------------------------------------------------------------- C2

\* the item's directory moves to its new name: the entry holds the new
\* path, the other entries are as they were, the old path is gone, every
\* file below it is below the new path, and no directory was added
RenamedInPlace ==
    LET old == page_map[Item]
        new == Append(Dirname(old), DirTitle(Item))
    IN  /\ DOMAIN page_map' = DOMAIN page_map
        /\ page_map'[Item] = new
        /\ \A e \in DOMAIN page_map \ {Item} : page_map'[e] = page_map[e]
        /\ new \in dirs'
        /\ old \notin dirs'
        /\ Cardinality(dirs') <= Cardinality(dirs)
        /\ \A f \in DOMAIN files : IsPrefix(old, f) =>
               /\ Moved(old, new, f) \in DOMAIN files'
               /\ files'[Moved(old, new, f)] = files[f]
               /\ f \notin DOMAIN files'

\* the links rendered by this step to a document whose directory an earlier
\* run renamed lead to the file of that document below the renamed directory
LinksFollowRename ==
    \A l \in links' \ links :
        (/\ l.to \in DOMAIN page_map
         /\ renamedAt[l.to] > 0
         /\ renamedAt[l.to] < run
         /\ ~Retitled(l.to))
        => /\ Basename(page_map[l.to]) = DirTitle(l.to)
           /\ l.target = Append(page_map[l.to], DirTitle(l.to) \o ".md")

Suffixed(base_name, k) ==
    IF k = 0 THEN base_name ELSE base_name \o " (" \o ToString(k) \o ")"

\* the directory the new items of the current call are placed in
BaseOfCall == IF Top.parent # << >> THEN Top.parent ELSE <<ROOT_DIR_NAME>>

\* the step about to be taken exports an item that has no registry entry
NewItemStep == ItemStep /\ Item \notin DOMAIN page_map

\* the new siblings with the item's directory title that this call has
\* processed before the item
EarlierNew ==
    Cardinality({ j \in 1..(Top.idx - 1) :
                    /\ Top.items[j] \in created
                    /\ DirTitle(Top.items[j]) = DirTitle(Item) })

\* C3 as stated (collision handling): among the siblings without registry
\* entries that share a sanitized title, the first encountered gets the
\* bare title and the k-th later one gets the title followed by " (k)"
C3_SuffixIsRank ==
    [][ NewItemStep =>
          page_map'[Item] = Append(BaseOfCall, Suffixed(DirTitle(Item), EarlierNew))
      ]_vars

\* C3 amended: a sibling without a registry entry gets the first name, of
\* the bare title, title (1), title (2), ..., that no entry of the parent
\* directory bears when it is processed; its path therefore differs from
\* every directory there is and from the path of every document first
\* registered in the same run, and no other registry entry is touched
C3_FirstFreeName ==
    [][ NewItemStep =>
          \E k \in 0..(Cardinality(dirs) + Cardinality(DOMAIN files)) :
              LET new == Append(BaseOfCall, Suffixed(DirTitle(Item), k))
              IN  /\ page_map'[Item] = new
                  /\ ~Exists(dirs, files, new)
                  /\ \A j \in 0..(k - 1) :
                         Exists(dirs, files,
                                Append(BaseOfCall, Suffixed(DirTitle(Item), j)))
                  /\ new \in dirs'
                  /\ \A e \in DOMAIN page_map : page_map'[e] = page_map[e]
                  /\ \A e \in created : page_map[e] # new
      ]_vars

\* two siblings first registered in this run share a title that a directory
\* of the parent already bore: they are named title (1) and title (2)
C3_Witness ==
    \E a, b \in created :
        /\ a # b
        /\ DirTitle(a) = DirTitle(b)
        /\ page_map[a] = Append(Dirname(page_map[b]), Suffixed(DirTitle(a), 1))
        /\ Basename(page_map[b]) = Suffixed(DirTitle(b), 2)

\* ----------------------------------------------------------------- C4

\* C4 (path stability across runs): a document whose title is the one it
\* was last exported under keeps its registry path in every step of every
\* later run, a document with a collision suffix included
C4_PathStable ==
    [][ \A d \in DOMAIN page_map :
            (d \in DOMAIN locatedAs /\ ~Retitled(d))
            => (d \in DOMAIN page_map' /\ page_map'[d] = page_map[d]) ]_vars

\* ----------------------------------------------------------------- C5

\* C5 (failure isolation between documents): when the traversal of a run
\* is over, every listed top-level document was processed, except those
\* whose own rename raised
C5_SiblingsStillProcessed ==
    pc \in {"shutdown", "close"} =>
        \A i \in 1..Len(fetch_notion_pages_and_databases) :
            LET d == fetch_notion_pages_and_databases[i]
            IN  step[d] # "none" \/ \E r \in failed : r.id = d

\* ----------------------------------------------------------------- C6

\* C6 (registry unchanged on rename failure): from the moment the os.rename
\* of a document's directory raised until the next run starts, the
\* registry holds for that document the path it held before the attempt
C6_RegistryKeptOnFailure ==
    \A r \in failed : get_relative_path(page_map, r.id) = r.path

\* a run is over in which the rename of a document raised: the entry holds
\* the old path, whose name is not the document's title
C6_Witness ==
    /\ pc = "idle"
    /\ \E r \in failed :
           /\ page_map[r.id] = r.path
           /\ Basename(r.path) # DirTitle(r.id)
           /\ r.path \in dirs

\* ----------------------------------------------------------------- C7

\* C7 (parent-before-children ordering): whenever the export of a child
\* page or of a row of a database has begun in a run, the file of the
\* document above it was written in that run
C7_ParentWrittenFirst ==
    \A d \in Ids :
        (step[d] # "none" /\ ParentOf(d) # "") => step[ParentOf(d)] = "written"

\* ----------------------------------------------------------------- C8

\* C8 (end-of-run barrier): once executor.shutdown has returned, and until
\* the next run starts, no download is pending or running; while a run is
\* under way every unfinished download was submitted by that run
C8_Barrier ==
    /\ pc \in {"close", "idle"} => \A i \in 1..Len(tasks) : tasks[i].st = "done"
    /\ \A i \in 1..Len(tasks) : tasks[i].st # "done" => tasks[i].run = run

\* executor.shutdown has returned in a run that submitted downloads, one of
\* which wrote its file
C8_Witness ==
    /\ pc = "close"
    /\ \E i \in 1..Len(tasks) : tasks[i].run = run /\ tasks[i].dest \in writes
    /\ \A i \in 1..Len(tasks) : tasks[i].st = "done"

\* ----------------------------------------------------------------- C9

\* C9 (deduplicated asset fetch): in a run, no destination path is written
\* by more than one download
C9_AtMostOnce == \A dest \in DOMAIN downloads : downloads[dest] <= 1

\* ---------------------------------------------------------------- C10

\* the URLs of the image blocks of a block tree
RECURSIVE ImagesIn(_)
ImagesIn(blocks) ==
    IF blocks = << >> THEN {}
    ELSE (IF Head(blocks).type = "image" THEN {Head(blocks).url} ELSE {})
         \cup ImagesIn(Head(blocks).children) \cup ImagesIn(Tail(blocks))

\* C10 (asset references scheduled and embedded on every run): with local
\* backup on, when a page has been rendered, in whatever run, each of its
\* image blocks has a download for its URL and destination submitted in
\* that run, and the text embeds the relative path images/<basename>
C10_ScheduledOnEveryRun ==
    (Walking /\ Top.pc = "write" /\ ObjectOf(Item) = "page" /\ enable_local_backup)
    => \A u \in ImagesIn(BlocksOf(Item)) :
           /\ \E i \in 1..Len(tasks) :
                  /\ tasks[i].run = run
                  /\ tasks[i].url = u
                  /\ tasks[i].dest = Top.path \o <<"images", UrlBasename(u)>>
           /\ \E i \in 1..(Len(Top.content) - 2) :
                  /\ Top.content[i] = "images"
                  /\ Top.content[i + 1] = "/"
                  /\ Top.content[i + 2] = UrlBasename(u)

\* C11: for a database with N >= 0 entries and M properties,
\* export_database_to_csv returns one header row of the M property names in
\* schema order, then N data rows in entry order, each of M quoted cells
C11_TabularShape ==
    (call.fn = "export_database_to_csv" /\ result.done) =>
        LET M == Len(call.headers)
            N == Len(call.entries)
            header == [h \in 1..M |-> <<call.headers[h]>>]
            rows == [e \in 1..N |-> [h \in 1..M |->
                        extract_property_value(call.entries[e][call.headers[h]]).out]]
        IN  /\ result.out = CsvRow(header) \o CsvRows(rows)
            /\ Cardinality({ i \in 1..Len(result.out) : result.out[i] = "LF" })
                   = N + 1

\* the opening or closing mark of an annotation of a span, if it is set
Mark(rich_text, flag, token) == IF rich_text[flag] THEN <<token>> ELSE << >>

\* C12 (as written): the wrappers are applied so that a span that is both
\* bold and code has its backticks outermost, around the asterisks
C12_BackticksOutermost ==
    (/\ call.fn = "get_rich_text" /\ result.done
     /\ Len(call.a) = 1 /\ call.b = << >>
     /\ Flags(call.a[1]) = {"code", "bold"} /\ call.a[1].href = "") =>
        result.out = <<"BACKTICK", "**">> \o call.a[1].plain_text
                        \o <<"**", "BACKTICK">>

\* C12 (amended): the wrappers of a span are applied in the order code,
\* bold, italic, strikethrough, underline, each around the result of the
\* previous one, and the link wrapper around them all: the backticks are
\* innermost, next to the text, and the link is outermost
C12_CodeInnermost ==
    (call.fn = "get_rich_text" /\ result.done
        /\ Len(call.a) = 1 /\ call.b = << >>) =>
        LET sp == call.a[1]
        IN  result.out =
                (IF sp.href # "" THEN <<"[">> ELSE << >>)
                \o Mark(sp, "underline", "<u>")
                \o Mark(sp, "strikethrough", "~~")
                \o Mark(sp, "italic", "*")
                \o Mark(sp, "bold", "**")
                \o Mark(sp, "code", "BACKTICK")
                \o sp.plain_text
                \o Mark(sp, "code", "BACKTICK")
                \o Mark(sp, "bold", "**")
                \o Mark(sp, "italic", "*")
                \o Mark(sp, "strikethrough", "~~")
                \o Mark(sp, "underline", "</u>")
                \o (IF sp.href # "" THEN <<"](", sp.href, ")">> ELSE << >>)

\* a bold code span was rendered, asterisks around backticks around text
C12_Witness ==
    /\ call.fn = "get_rich_text" /\ result.done
    /\ Len(call.a) = 1 /\ call.b = << >>
    /\ Flags(call.a[1]) = {"code", "bold"} /\ call.a[1].href = ""
    /\ result.out = <<"**", "BACKTICK", "s", "BACKTICK", "**">>

\* C13: get_rich_text of the concatenation of two arrays is the
\* concatenation of their renderings, in that order, and the empty array
\* renders to the empty text
C13_Homomorphism ==
    (call.fn = "get_rich_text" /\ result.done) =>
        /\ result.out = get_rich_text(call.a) \o get_rich_text(call.b)
        /\ (call.a \o call.b = << >>) => result.out = << >>

\* two different non-empty arrays were rendered as one
C13_Witness ==
    /\ call.fn = "get_rich_text" /\ result.done
    /\ Len(call.a) = MaxLen /\ Len(call.b) >= 1
    /\ get_rich_text(call.a) # get_rich_text(call.b)
    /\ result.out # << >>

\* C15: for a column list or a column, process_block returns exactly the
\* concatenation of the fragments of its children, with no markup added
C15_ColumnsTransparent ==
    (/\ call.fn = "process_block" /\ result.done
     /\ call.block.type \in {"column_list", "column"}) =>
        LET w0 == [dirs |-> dirs, files |-> files, tasks |-> tasks,
                   writes |-> writes, log |-> {}, links |-> {}]
        IN  result.out = blocks_to_markdown(call.block.children, CallPath, w0).md

\* a step that renders a page
RenderPageStep ==
    /\ Walking
    /\ Top.pc = "render"
    /\ ObjectOf(Item) = "page"
    /\ stack' # stack

\* what the blocks of the page under export log while they are rendered
BlockRecords ==
    LET w0 == [dirs |-> dirs, files |-> files, tasks |-> tasks,
               writes |-> writes, log |-> {}, links |-> {}]
    IN  page_to_markdown(Item, Top.path, w0).w.log

\* C14: when the rendering of a block raises or its kind is not
\* recognised, the block contributes the empty fragment and a log record,
\* its siblings are rendered, and the document of the page is still produced
C14_DocumentStillProduced ==
    [][ (RenderPageStep
            /\ BlockRecords \cap {"Error processing block",
                                  "Unsupported block type"} # {})
        => /\ BlockRecords \subseteq log'
           /\ stack'[Len(stack)].pc = "write"
           /\ stack'[Len(stack)].content # << >> ]_vars

\* C16: with upload enabled, every artifact produced in a run is uploaded,
\* whether or not the local file was rewritten, under the key that is the
\* path of the artifact relative to the export root, the path used for the
\* local file; this holds in the run that renames the directory too
C16_UploadKeyIsLocalPath ==
    (Walking /\ Top.pc = "recurse" /\ enable_backblaze_backup) =>
        LET file_path == Append(Top.path, FileName(Item))
        IN  /\ file_path \in uploaded
            /\ bucket[file_path] = Top.content

\* C17: with local persistence, every page visited has after its visit
\* exactly one .md file in its directory, named after its sanitized title,
\* also when its block tree is empty or renders to nothing
C17_OneMarkdownPerPage ==
    (enable_local_backup /\ pc \in {"shutdown", "close"}) =>
        \A d \in PageIds :
            step[d] # "none" =>
                LET names == { sanitize_filename(t) \o ".md" : t \in Titles }
                    here == { f \in DOMAIN files :
                                Dirname(f) = page_map[d] /\ Basename(f) \in names }
                IN  here = { Append(page_map[d], DirTitle(d) \o ".md") }

\* C18: every run of main_backup that acquired a session has released it
\* with close_db when the run ends, whether its steps completed or one of
\* them failed
C18_SessionReleased ==
    [][ (pc # "idle" /\ pc' = "idle") => session' = "closed" ]_vars

\* a run in which a step failed after the session was acquired has ended
\* with the session closed
C18_Witness ==
    /\ pc = "idle"
    /\ run > 0
    /\ "Error exporting items" \in log
    /\ page_map # << >>
    /\ session = "closed"

\* C19: a listing is returned only when it is complete; when a paginated
\* call fails part-way the partial listing is not taken for the complete
\* one: no document rendered from it replaces the content of the existing
\* file
C19_PartialNotWritten ==
    \A d \in partial :
        LET file_path == Append(page_map[d], FileName(d))
        IN  ~ (/\ file_path \in writes
               /\ file_path \in DOMAIN filesAtStart
               /\ files[file_path] # filesAtStart[file_path])

\* a Locate step that completes: the item goes on to be rendered
CompletedLocate ==
    /\ ItemStep
    /\ Len(stack') = Len(stack)
    /\ stack'[Len(stack)].pc = "render"

\* C20 (as written): after every Locate step that completes, the registry
\* holds one entry for the id and the basename of its directory is the
\* sanitized current title
C20_DirectoryNamedByTitle ==
    [][ CompletedLocate =>
          /\ Item \in DOMAIN page_map'
          /\ Basename(page_map'[Item]) = DirTitle(Item) ]_vars

\* C20 (amended): after every Locate step that completes, the registry
\* holds one entry for the id, the entry names an existing directory, the
\* one the item is exported to, and its basename is the sanitized current
\* title, or, for an item registered by this step when a sibling entry
\* already bore that name, the title followed by a collision suffix " (k)"
C20_DirectoryNamedByTitleOrSuffixed ==
    [][ CompletedLocate =>
          /\ Item \in DOMAIN page_map'
          /\ page_map'[Item] \in dirs'
          /\ stack'[Len(stack)].path = page_map'[Item]
          /\ IF Item \in DOMAIN page_map
             THEN Basename(page_map'[Item]) = DirTitle(Item)
             ELSE \E k \in 0..(Cardinality(dirs) + Cardinality(DOMAIN files)) :
                    /\ page_map'[Item] =
                          Append(BaseOfCall, Suffixed(DirTitle(Item), k))
                    /\ k > 0 => Exists(dirs, files,
                                       Append(BaseOfCall, DirTitle(Item)))
      ]_vars

\* one item was located after its rename and another was registered by its
\* Locate step under a suffixed name
C20_Witness ==
    /\ \E d \in Ids :
          /\ renamedAt[d] = run
          /\ step[d] # "none"
          /\ Basename(page_map[d]) = DirTitle(d)
    /\ \E d \in created :
          /\ step[d] # "none"
          /\ Basename(page_map[d]) = Suffixed(DirTitle(d), 1)

\* C21: when the directory of a document that owns a subtree was renamed,
\* in that run and in every later run each descendant visited is exported
\* into the directory that moved with the parent: its registry entry names
\* a path under the parent's path and the path it is exported to is that one
C21_DescendantsFollowParent ==
    \A d \in DOMAIN page_map :
        LET q == ParentOf(d)
        IN  (/\ q \in DOMAIN page_map
             /\ renamedAt[q] > 0
             /\ step[q] # "none"
             /\ step[d] # "none")
            => /\ Dirname(page_map[d]) = page_map[q]
               /\ page_map[d] \in dirs

\* C22: at the end of a run, every link to a child that was written into a
\* parent's document names the render file of the child at the path the
\* registry holds for the child at the end of that run
C22_LinksMatchRegistry ==
    (pc \in {"shutdown", "close"}) =>
        \A l \in links :
            (step[l.from] = "written" /\ l.to \in DOMAIN page_map) =>
                l.target = Append(page_map[l.to], FileName(l.to))

\* C23: every child for which process_block emitted a link, at any depth
\* of the block tree of a page, has been visited by export_pages when the
\* traversal of the run that rendered the link is over
C23_LinkedChildVisited ==
    (pc \in {"shutdown", "close"} /\ "Error exporting items" \notin log) =>
        \A l \in links : step[l.to] # "none"

\* a step that saves the document of the item under export, with local
\* persistence enabled and a directory to write into
SaveStep ==
    /\ Walking
    /\ Top.pc = "write"
    /\ enable_local_backup
    /\ CanWrite(dirs, Append(Top.path, FileName(Item)))
    /\ stack' # stack

\* C24: with local persistence, export_pages writes the file of a document
\* if and only if the file is absent or its stored content differs from the
\* rendered content; a file written from the same content, carriage returns
\* included, is judged identical and is not written again
C24_WrittenIffDifferent ==
    [][ SaveStep =>
          LET file_path == Append(Top.path, FileName(Item))
          IN  (file_path \in writes' \ writes)
              <=> (\/ file_path \notin DOMAIN files
                   \/ files[file_path] # EncodeSig(Top.content)) ]_vars

\* C25: extract_property_value returns a cell text without raising for
\* every property value, a null payload included, and export_database_to_csv
\* emits the header and all rows of a database that has entries
C25_ExtractionNeverAborts ==
    /\ (call.fn = "extract_property_value" /\ result.done) => ~result.raised
    /\ (call.fn = "export_database_to_csv" /\ result.done
            /\ call.entries # << >>) =>
          Cardinality({ i \in 1..Len(result.out) : result.out[i] = "LF" })
              = Len(call.entries) + 1

\* C26: no two distinct documents have registry entries that name the same
\* relative path
C26_RegistryInjective ==
    \A a, b \in DOMAIN page_map : a # b => page_map[a] # page_map[b]

\* C27: for every path a client sends, secure_path aborts with 403 or
\* returns BASE_BACKUP_DIR or a path below it; a sibling directory whose
\* name starts with the name of the backup directory is outside
C27_PathConfined ==
    (call.fn = "secure_path" /\ result.done /\ ~result.raised) =>
        /\ Len(result.out) >= Len(BASE_BACKUP_DIR)
        /\ SubSeq(result.out, 1, Len(BASE_BACKUP_DIR)) = BASE_BACKUP_DIR

====
